---------------------------- MODULE Spec2Model ----------------------------
(***************************************************************************)
(* A state-machine model of src/js/script.js: the DOMContentLoaded handler *)
(* of the portfolio page and the event handlers it registers.              *)
(*                                                                         *)
(*   - the rAF throttle utility and the two scroll handlers built on it    *)
(*     (header class toggle, scroll-progress indicator);                   *)
(*   - the contact-form submit handler (an async function suspended at     *)
(*     its fetch) and the toasts it raises;                                *)
(*   - the project modal: card click, the three close routes.              *)
(*                                                                         *)
(* The browser is the environment: it changes the scroll position,         *)
(* dispatches events, runs animation-frame callbacks, settles fetches and  *)
(* fires timers.  One action is one run-to-completion step of the main     *)
(* thread (one handler, one frame, one promise continuation).              *)
(*                                                                         *)
(* Not modelled: the GSAP / ScrollTrigger / Lenis engines (external        *)
(* collaborators; their tweens only change presentation), and the focus    *)
(* moved by closeModal.focus().                                            *)
(***************************************************************************)
EXTENDS Integers, Naturals, Sequences, FiniteSets, TLC

(***************************************************************************)
(* Bounds of the model.                                                    *)
(***************************************************************************)
\* scroll events dispatched in one behaviour
MaxEvents == 3
\* contact-form submissions in one behaviour
MaxSubmits == 2
\* length of a data-stack attribute, in characters
MaxStackLen == 3
\* sections in the page's main element
MaxSections == 3

(***************************************************************************)
(* Program constants.                                                      *)
(***************************************************************************)
\* script.js:100   window.scrollY > 50
ScrolledThreshold == 50

IdleLabel == "Send Message"
BusyLabel == "Sending..."
SuccessMsg == "Message sent successfully!"
ServerRejectedMsg == "Something went wrong. Please try again."
NetworkErrorMsg == "Network error. Please try again later."
DefaultTitle == "Project Details"
DefaultDescription == "No description available."
StackPlaceholder == "Tech stack not specified."

(***************************************************************************)
(* The page: which of the optional elements the markup holds.              *)
(***************************************************************************)
Elements ==
  { "header", "scrollIndicator", "contactForm", "submitButton", "modal",
    "modalTitle", "modalDescription", "modalStack", "closeModal" }

VARIABLES
  ready,           \* the DOMContentLoaded handler has run
  present,         \* the elements of Elements the page holds
  uncaught,        \* some handler has thrown (an uncaught TypeError)
  \* ---- scrolling
  scrollY,         \* window.scrollY = documentElement.scrollTop
  scrollHeight,    \* documentElement.scrollHeight
  clientHeight,    \* documentElement.clientHeight
  scrollPending,   \* the position changed and its scroll event is not yet dispatched
  nEvents,         \* scroll events dispatched so far (the next event's identity)
  ticking,         \* per wrapper: the closure variable of rafThrottle
  rafQueue,        \* the animation-frame callbacks requested, in order
  calls,           \* per wrapper: its invocations since its last frame callback
  fnRuns,          \* per wrapper: how often its fn has been executed by it
  fnLast,          \* per wrapper: the this and arguments of fn's last execution
  headerScrolled,  \* header.classList contains "scrolled"
  indicatorScale,  \* the scaleX of scrollIndicator.style.transform, a fraction
  \* ---- contact form and toasts
  formValue,       \* what the form's fields hold
  submitDisabled,  \* submitButton.disabled
  submitLabel,     \* submitButton.textContent
  subs,            \* the submit handler's invocations, each with its position
  toasts,          \* the toast elements in document.body, in order
  timers,          \* toasts whose 3000 ms dwell timer is pending
  exiting,         \* toasts whose exit tween is running
  nToasts,         \* toasts created so far
  \* ---- project modal
  modalDisplay,    \* modal.style.display
  bodyOverflow,    \* document.body.style.overflow
  modalTitle,      \* modalTitle.textContent
  modalDescription,\* modalDescription.textContent
  modalStack,      \* modalStackContainer: its span labels and its own text
  lastCard,        \* the project card clicked last, if any
  lastEvent,       \* the click or key event handled last, and whether the
                   \* modal was open (display "block") when it arrived
  \* ---- section animations
  sections,        \* the ids of the "main > section" elements, in document order
  triggers         \* the sections (by position) that got a fade-toggle trigger

domVars == << ready, present, uncaught >>
scrollVars ==
  << scrollY, scrollHeight, clientHeight, scrollPending, nEvents, ticking,
     rafQueue, calls, fnRuns, fnLast, headerScrolled, indicatorScale >>
formVars ==
  << formValue, submitDisabled, submitLabel, subs, toasts, timers, exiting,
     nToasts >>
modalVars ==
  << modalDisplay, bodyOverflow, modalTitle, modalDescription, modalStack,
     lastCard, lastEvent >>
sectionVars == << sections, triggers >>
vars == << domVars, scrollVars, formVars, modalVars, sectionVars >>

Last(s) == s[Len(s)]

(***************************************************************************)
(* Scrolling: rafThrottle and the two handlers built on it.                *)
(***************************************************************************)
Wrappers == { "onHeaderScroll", "onIndicatorScroll" }

\* the scroll offsets the browser may report; both sides of the threshold
ScrollYs == { 0, ScrolledThreshold, ScrolledThreshold + 1, 120 }
\* the viewport's height and the document heights the layout may have: a
\* document that does not scroll, and two that do
ClientHeights == { 100 }
ScrollHeights == { 100, 151, 220 }

\* a call of a wrapper: its this-binding and its argument list
WindowCall(args) == [this |-> "window", args |-> args]
NoCall == [this |-> "none", args |-> << >>]

\* a fraction n/d; d = 0 stands for "no inline transform set"
Frac(n, d) == [n |-> n, d |-> d]
NoScale == Frac(0, 0)

\* const scrolled = window.scrollY > 50
HeaderScrolledEager(y) == y >= ScrolledThreshold
HeaderScrolled(y) == y > ScrolledThreshold

\* Math.max(x, 0) and Math.min(x, 1) of a fraction with a positive denominator
MaxZero(x) == IF x.n < 0 THEN Frac(0, 1) ELSE x
MinOne(x) == IF x.n > x.d THEN Frac(1, 1) ELSE x

\* updateIndicator without its scrollableHeight > 0 guard: a division by
\* zero, whose NaN or Infinity is the fraction with denominator 0
UpdateIndicatorNoGuard(top, sh, ch) ==
  LET scrollableHeight == sh - ch
  IN  IF scrollableHeight > 0
        THEN MinOne(MaxZero(Frac(top * 100, scrollableHeight * 100)))
        ELSE Frac(top * 100, 0)

\* updateIndicator: scrollPercent = scrollableHeight > 0 ?
\* (scrollTop / scrollableHeight) * 100 : 0, and the scale is
\* Math.min(Math.max(scrollPercent / 100, 0), 1); the arithmetic is exact
UpdateIndicator(top, sh, ch) ==
  LET scrollableHeight == sh - ch
      scrollPercent == IF scrollableHeight > 0
                         THEN Frac(top * 100, scrollableHeight)
                         ELSE Frac(0, 1)
  IN  MinOne(MaxZero(Frac(scrollPercent.n, scrollPercent.d * 100)))

\* the state the scroll handlers read and write, as one record
ScrollSt ==
  [ ticking |-> ticking, rafQueue |-> rafQueue, calls |-> calls,
    fnRuns |-> fnRuns, fnLast |-> fnLast,
    headerScrolled |-> headerScrolled, indicatorScale |-> indicatorScale ]

SetScrollSt(st) ==
  /\ ticking' = st.ticking
  /\ rafQueue' = st.rafQueue
  /\ calls' = st.calls
  /\ fnRuns' = st.fnRuns
  /\ fnLast' = st.fnLast
  /\ headerScrolled' = st.headerScrolled
  /\ indicatorScale' = st.indicatorScale

\* the body of the function a wrapper throttles
ApplyFn(w, st) ==
  IF w = "onHeaderScroll"
    THEN [st EXCEPT !.headerScrolled = HeaderScrolled(scrollY)]
    ELSE [st EXCEPT !.indicatorScale =
                      UpdateIndicator(scrollY, scrollHeight, clientHeight)]

\* fn.apply(this, args), as the wrapper w does it
RunFn(w, call, st) ==
  [ApplyFn(w, st) EXCEPT !.fnRuns[w] = @ + 1, !.fnLast[w] = call]

\* a leading-edge throttle: runs fn at once, the frame only clears the flag
ThrottledCallLeading(w, call, st) ==
  LET noted == [st EXCEPT !.calls[w] = Append(@, call)]
  IN  IF ~st.ticking[w]
        THEN [RunFn(w, call, noted) EXCEPT
                !.rafQueue = Append(@, [w |-> w, call |-> call]),
                !.ticking[w] = TRUE]
        ELSE noted

\* the function rafThrottle returns, invoked: (...args) => { if (!ticking) ... }
ThrottledCall(w, call, st) ==
  LET noted == [st EXCEPT !.calls[w] = Append(@, call)]
  IN  IF ~st.ticking[w]
        THEN [noted EXCEPT
                !.rafQueue = Append(@, [w |-> w, call |-> call]),
                !.ticking[w] = TRUE]
        ELSE noted

\* a frame callback that never clears the flag
FrameCallbackStuck(cb, st) ==
  [RunFn(cb.w, cb.call, st) EXCEPT !.calls[cb.w] = << >>]

\* the callback handed to requestAnimationFrame: it closes over the this and
\* args of the call that requested it
FrameCallback(cb, st) ==
  [RunFn(cb.w, cb.call, st) EXCEPT !.ticking[cb.w] = FALSE,
                                   !.calls[cb.w] = << >>]

RECURSIVE RunFrame(_, _)
RunFrame(q, st) ==
  IF q = << >> THEN st ELSE RunFrame(Tail(q), FrameCallback(Head(q), st))

\* the user (or the browser) moves the scroll position; the browser clamps
\* it to the scrollable range
ScrollTo(y) ==
  /\ y # scrollY
  /\ y <= scrollHeight - clientHeight
  /\ scrollY' = y
  /\ scrollPending' = TRUE
  /\ UNCHANGED << scrollHeight, clientHeight, nEvents, ticking, rafQueue,
                  calls, fnRuns, fnLast, headerScrolled, indicatorScale >>
  /\ UNCHANGED << domVars, sectionVars, formVars, modalVars >>

\* the offsets outside the scrollable range that an elastic (rubber-band)
\* scroll reports
OverscrollYs == { -20 } \cup ScrollYs
Overscroll(y) ==
  /\ y # scrollY
  /\ y < 0 \/ y > scrollHeight - clientHeight
  /\ scrollY' = y
  /\ scrollPending' = TRUE
  /\ UNCHANGED << scrollHeight, clientHeight, nEvents, ticking, rafQueue,
                  calls, fnRuns, fnLast, headerScrolled, indicatorScale >>
  /\ UNCHANGED << domVars, sectionVars, formVars, modalVars >>

\* a page whose indicator listener was never registered
ScrollEventHeaderOnly ==
  /\ ready
  /\ scrollPending
  /\ nEvents < MaxEvents
  /\ SetScrollSt(IF "header" \in present
                   THEN ThrottledCall("onHeaderScroll",
                                      WindowCall(<< nEvents + 1 >>), ScrollSt)
                   ELSE ScrollSt)
  /\ nEvents' = nEvents + 1
  /\ scrollPending' = FALSE
  /\ UNCHANGED << scrollY, scrollHeight, clientHeight >>
  /\ UNCHANGED << domVars, sectionVars, formVars, modalVars >>

\* the window's scroll event: its listeners run in registration order, each
\* with this = window and the event as its one argument
ScrollEvent ==
  /\ ready
  /\ scrollPending
  /\ nEvents < MaxEvents
  /\ LET call == WindowCall(<< nEvents + 1 >>)
         st1 == IF "header" \in present
                  THEN ThrottledCall("onHeaderScroll", call, ScrollSt)
                  ELSE ScrollSt
         st2 == IF "scrollIndicator" \in present
                  THEN ThrottledCall("onIndicatorScroll", call, st1)
                  ELSE st1
     IN  SetScrollSt(st2)
  /\ nEvents' = nEvents + 1
  /\ scrollPending' = FALSE
  /\ UNCHANGED << scrollY, scrollHeight, clientHeight >>
  /\ UNCHANGED << domVars, sectionVars, formVars, modalVars >>

\* one animation frame: the callbacks requested before it run in order
AnimationFrame ==
  /\ rafQueue # << >>
  /\ SetScrollSt(RunFrame(rafQueue, [ScrollSt EXCEPT !.rafQueue = << >>]))
  /\ UNCHANGED << scrollY, scrollHeight, clientHeight, scrollPending, nEvents >>
  /\ UNCHANGED << domVars, sectionVars, formVars, modalVars >>

(***************************************************************************)
(* Toasts.                                                                 *)
(***************************************************************************)
ToastTypes == { "success", "error", "info" }

\* the background class showToast picks for a type
ToastClass(type) ==
  IF type = "success" THEN "bg-green-600"
  ELSE IF type = "error" THEN "bg-red-600"
  ELSE "bg-gray-700"

\* the state the submit handler and showToast read and write, as one record
FormSt ==
  [ formValue |-> formValue, submitDisabled |-> submitDisabled,
    submitLabel |-> submitLabel, toasts |-> toasts, timers |-> timers,
    nToasts |-> nToasts ]

SetFormSt(st) ==
  /\ formValue' = st.formValue
  /\ submitDisabled' = st.submitDisabled
  /\ submitLabel' = st.submitLabel
  /\ toasts' = st.toasts
  /\ timers' = st.timers
  /\ nToasts' = st.nToasts

\* showToast(message, type): the element is appended to document.body and
\* its dwell timer is set
ShowToast(message, type, st) ==
  LET id == st.nToasts + 1
  IN  [st EXCEPT
         !.toasts = Append(@, [id |-> id, message |-> message, type |-> type,
                               class |-> ToastClass(type)]),
         !.timers = @ \cup { id },
         !.nToasts = id]

\* a dwell timer that removes the toast itself, without an exit tween
ToastTimerRemoves(id) ==
  /\ id \in timers
  /\ timers' = timers \ { id }
  /\ toasts' = SelectSeq(toasts, LAMBDA t : t.id # id)
  /\ UNCHANGED << formValue, submitDisabled, submitLabel, subs, exiting, nToasts >>
  /\ UNCHANGED << domVars, sectionVars, scrollVars, modalVars >>

\* setTimeout(..., 3000) fires: the exit tween of that toast starts
ToastTimerFires(id) ==
  /\ id \in timers
  /\ timers' = timers \ { id }
  /\ exiting' = exiting \cup { id }
  /\ UNCHANGED << formValue, submitDisabled, submitLabel, subs, toasts, nToasts >>
  /\ UNCHANGED << domVars, sectionVars, scrollVars, modalVars >>

\* a removal by a selector that matches every toast
RemoveToastAll(id, ts) == << >>

RemoveToast(id, ts) == SelectSeq(ts, LAMBDA t : t.id # id)

\* the exit tween's onComplete: toast.remove()
ExitAnimationCompletes(id) ==
  /\ id \in exiting
  /\ exiting' = exiting \ { id }
  /\ toasts' = RemoveToast(id, toasts)
  /\ UNCHANGED << formValue, submitDisabled, submitLabel, subs, timers, nToasts >>
  /\ UNCHANGED << domVars, sectionVars, scrollVars, modalVars >>

(***************************************************************************)
(* The contact form's submit handler.                                      *)
(***************************************************************************)
\* what the form's fields may hold; form.reset() restores the first
FieldDefault == ""
FieldValues == { FieldDefault, "hello" }

\* how the fetch of a submission settles: response.ok, a response that is
\* not ok (HTTP 422), a rejected promise (transport error)
Outcomes == { "ok", "rejected", "neterror" }

\* the response.ok branch without its form.reset()
OnSuccessNoReset(st) == ShowToast(SuccessMsg, "success", st)

\* if (response.ok) { ... showToast(success); form.reset(); ... }
OnSuccess(st) ==
  [ShowToast(SuccessMsg, "success", st) EXCEPT !.formValue = FieldDefault]

\* a rejected submission that clears the form as a successful one does
OnRejectedReset(st) ==
  [ShowToast(ServerRejectedMsg, "error", st) EXCEPT !.formValue = FieldDefault]

\* else { showToast("Something went wrong...", "error") }
OnRejected(st) == ShowToast(ServerRejectedMsg, "error", st)

\* a catch block that reuses the server-rejected message
OnNetworkErrorSameMsg(st) == ShowToast(ServerRejectedMsg, "error", st)

\* catch (error) { console.error(...); showToast("Network error...", "error") }
OnNetworkError(st) == ShowToast(NetworkErrorMsg, "error", st)

\* cleanup that was not put in a finally block: nothing is restored
FinallyBlockMissing(st) == st

\* finally { submitButton.disabled = false; textContent = "Send Message" }
FinallyBlock(st) ==
  [st EXCEPT !.submitDisabled = FALSE, !.submitLabel = IdleLabel]

\* the handler from the point its await resumes to its end
AfterFetch(outcome, st) ==
  FinallyBlock(CASE outcome = "ok" -> OnSuccess(st)
                 [] outcome = "rejected" -> OnRejected(st)
                 [] OTHER -> OnNetworkError(st))

\* the user edits the form
TypeMessage(v) ==
  /\ "contactForm" \in present
  /\ v # formValue
  /\ formValue' = v
  /\ UNCHANGED << submitDisabled, submitLabel, subs, toasts, timers, exiting,
                  nToasts >>
  /\ UNCHANGED << domVars, sectionVars, scrollVars, modalVars >>

\* a submit event: the handler runs up to its await.  Without a submit button
\* querySelector returns null and the handler throws before it fetches.
SubmitEvent ==
  /\ ready
  /\ "contactForm" \in present
  /\ Len(subs) < MaxSubmits
  /\ IF "submitButton" \in present
       THEN /\ submitDisabled' = TRUE
            /\ submitLabel' = BusyLabel
            /\ subs' = Append(subs, [pc |-> "awaiting", outcome |-> "none",
                                     data |-> formValue])
            /\ UNCHANGED uncaught
       ELSE /\ uncaught' = TRUE
            /\ UNCHANGED << submitDisabled, submitLabel, subs >>
  /\ UNCHANGED << formValue, toasts, timers, exiting, nToasts >>
  /\ UNCHANGED << ready, present, sectionVars, scrollVars, modalVars >>

\* the fetch of submission i settles and the handler runs to its end
FetchSettles(i, outcome) ==
  /\ i \in DOMAIN subs
  /\ subs[i].pc = "awaiting"
  /\ SetFormSt(AfterFetch(outcome, FormSt))
  /\ subs' = [subs EXCEPT ![i].pc = "done", ![i].outcome = outcome]
  /\ UNCHANGED exiting
  /\ UNCHANGED << domVars, sectionVars, scrollVars, modalVars >>

(***************************************************************************)
(* The project modal.                                                      *)
(***************************************************************************)
\* an attribute of a card: present with a value, or absent
Attr(v) == [has |-> TRUE, val |-> v]
NoText == [has |-> FALSE, val |-> ""]
NoList == [has |-> FALSE, val |-> << >>]

\* a data-stack value is a sequence of characters: a word (a run of
\* characters that are neither blank nor comma), a blank, or a comma
Blank == " "
Comma == ","
Chars == { "Go", "React", Blank, Comma }
StackStrings == UNION { [1..n -> Chars] : n \in 0..MaxStackLen }

TitleAttrs == { NoText, Attr(""), Attr("Portfolio") }
DescriptionAttrs == { NoText, Attr(""), Attr("My site") }

\* the project cards a page may hold: every way of giving title and
\* description, and every data-stack value
TextCards ==
  { [title |-> t, description |-> d, stack |-> NoList] :
      t \in TitleAttrs, d \in DescriptionAttrs }
StackCards ==
  { [title |-> Attr("Portfolio"), description |-> NoText, stack |-> Attr(s)] :
      s \in StackStrings }
Cards == TextCards \cup StackCards
\* the cards of a page whose data-stack values are not varied
GoReact == << "Go", Comma, "React" >>
SampleCards ==
  TextCards \cup
  { [title |-> Attr("Portfolio"), description |-> Attr("My site"),
     stack |-> Attr(GoReact)] }

\* String.prototype.split(',')
RECURSIVE SplitComma(_)
SplitComma(s) ==
  IF \E i \in 1..Len(s) : s[i] = Comma
    THEN LET i == CHOOSE k \in 1..Len(s) :
                    s[k] = Comma /\ \A j \in 1..(k - 1) : s[j] # Comma
         IN  << SubSeq(s, 1, i - 1) >> \o SplitComma(SubSeq(s, i + 1, Len(s)))
    ELSE << s >>

\* String.prototype.trim()
RECURSIVE Trim(_)
Trim(s) ==
  IF s = << >> THEN s
  ELSE IF Head(s) = Blank THEN Trim(Tail(s))
  ELSE IF Last(s) = Blank THEN Trim(SubSeq(s, 1, Len(s) - 1))
  ELSE s

\* the parse without its .map(s => s.trim())
ParseStackNoTrim(attr) ==
  IF attr.has /\ attr.val # << >> THEN SplitComma(attr.val) ELSE << >>

\* card.dataset.stack ? card.dataset.stack.split(',').map(s => s.trim()) : []
ParseStack(attr) ==
  IF attr.has /\ attr.val # << >>
    THEN LET items == SplitComma(attr.val)
         IN  [i \in 1..Len(items) |-> Trim(items[i])]
    ELSE << >>

\* card.dataset.x || fallback
OrDefault(attr, fallback) ==
  IF attr.has /\ attr.val # "" THEN attr.val ELSE fallback

\* a handler that leaves the region's children in place
ClearStackKeeps(region) == region

\* modalStackContainer.innerHTML = ''
ClearStack(region) == [labels |-> << >>, text |-> ""]

\* the technology region is filled: a span is appended for each label, or
\* textContent replaces all the region holds by the placeholder text
RenderStack(region, stack) ==
  IF Len(stack) > 0
    THEN [region EXCEPT !.labels = region.labels \o stack]
    ELSE [labels |-> << >>, text |-> StackPlaceholder]

\* the state the modal's handlers read and write, as one record
ModalSt ==
  [ display |-> modalDisplay, overflow |-> bodyOverflow, title |-> modalTitle,
    description |-> modalDescription, stack |-> modalStack,
    threw |-> uncaught ]

SetModalSt(st) ==
  /\ modalDisplay' = st.display
  /\ bodyOverflow' = st.overflow
  /\ modalTitle' = st.title
  /\ modalDescription' = st.description
  /\ modalStack' = st.stack
  /\ uncaught' = st.threw

\* a property of null is set: the handler ends there with a TypeError
Throw(st) == [st EXCEPT !.threw = TRUE]

\* the click listener of a project card, statement by statement
OpenModal(card, st) ==
  IF "modalTitle" \notin present THEN Throw(st)
  ELSE
  LET s1 == [st EXCEPT !.title = OrDefault(card.title, DefaultTitle)]
  IN
  IF "modalDescription" \notin present THEN Throw(s1)
  ELSE
  LET s2 == [s1 EXCEPT
               !.description = OrDefault(card.description, DefaultDescription)]
  IN
  IF "modalStack" \notin present THEN Throw(s2)
  ELSE
  LET s3 == [s2 EXCEPT !.stack = RenderStack(ClearStack(s2.stack),
                                             ParseStack(card.stack))]
  IN
  IF "modal" \notin present THEN Throw(s3)
  ELSE [s3 EXCEPT !.display = "block", !.overflow = "hidden"]

\* a hideModal that forgets document.body.style.overflow
HideModalKeepLock(st) ==
  IF "modal" \notin present THEN st ELSE [st EXCEPT !.display = "none"]

\* function hideModal()
HideModal(st) ==
  IF "modal" \notin present
    THEN st
    ELSE [st EXCEPT !.display = "none", !.overflow = ""]

EscapeKeys == { "Escape", "Esc" }
Keys == EscapeKeys \cup { "Enter" }

\* a keydown listener that hides the modal whatever its display is
OnKeyDownAlways(key, st) == IF key \in EscapeKeys THEN HideModal(st) ELSE st

\* the window's keydown listener
OnKeyDown(key, st) ==
  IF key \in EscapeKeys
    THEN IF "modal" \in present /\ st.display = "block"
           THEN HideModal(st)
           ELSE st
    ELSE st

\* the event a handler is run for
Event(type, detail) ==
  [type |-> type, detail |-> detail, open |-> modalDisplay = "block"]
NoEvent == [type |-> "none", detail |-> "", open |-> FALSE]

\* a click on a project card
CardClick(card) ==
  /\ ready
  /\ SetModalSt(OpenModal(card, ModalSt))
  /\ lastCard' = << card >>
  /\ lastEvent' = Event("click", "card")
  /\ UNCHANGED << ready, present, sectionVars, scrollVars, formVars >>

\* a click on the close control
CloseClick ==
  /\ ready
  /\ "closeModal" \in present
  /\ SetModalSt(HideModal(ModalSt))
  /\ lastEvent' = Event("click", "closeModal")
  /\ UNCHANGED << lastCard, ready, present, sectionVars, scrollVars, formVars >>

\* a click that reaches the window: on the modal itself (the overlay around
\* its content) or on anything else
ClickTargets == { "modal", "elsewhere" }
WindowClick(target) ==
  /\ ready
  /\ target = "modal" => "modal" \in present
  /\ SetModalSt(IF target = "modal" THEN HideModal(ModalSt) ELSE ModalSt)
  /\ lastEvent' = Event("click", target)
  /\ UNCHANGED << lastCard, ready, present, sectionVars, scrollVars, formVars >>

\* a key is pressed
KeyDown(key) ==
  /\ ready
  /\ SetModalSt(OnKeyDown(key, ModalSt))
  /\ lastEvent' = Event("keydown", key)
  /\ UNCHANGED << lastCard, ready, present, sectionVars, scrollVars, formVars >>

(***************************************************************************)
(* Initialization and the specifications.                                  *)
(***************************************************************************)
\* the ids a section may carry; "" is a section without id
SectionIds == { "hero", "about", "contact", "" }
SectionLists == UNION { [1..n -> SectionIds] : n \in 0..MaxSections }
\* the sections of a page whose sections are not varied
PageSections == << "hero", "about", "contact" >>

\* a loop that skips the first section whatever its id
SectionTriggersByPosition(secs) ==
  { i \in DOMAIN secs : ~(i = 1 \/ i = Len(secs)) }

\* sections.forEach((section, index) => ...): the sections that are not
\* skipped get a trigger; positions count from 1 here
SectionTriggers(secs) ==
  { i \in DOMAIN secs : ~(secs[i] = "hero" \/ i = Len(secs)) }

\* an initialization that sends the indicator's first update through its
\* throttle too
DOMContentLoadedLazy ==
  /\ ~ready
  /\ ready' = TRUE
  /\ LET st1 == IF "header" \in present
                  THEN ThrottledCall("onHeaderScroll", WindowCall(<< >>), ScrollSt)
                  ELSE ScrollSt
         st2 == IF "scrollIndicator" \in present
                  THEN ThrottledCall("onIndicatorScroll", WindowCall(<< >>), st1)
                  ELSE st1
     IN  SetScrollSt(st2)
  /\ UNCHANGED << scrollY, scrollHeight, clientHeight, scrollPending, nEvents >>
  /\ triggers' = SectionTriggers(sections)
  /\ UNCHANGED << present, uncaught, sections, formVars, modalVars >>

\* the DOMContentLoaded handler: the header wrapper is invoked once, the
\* indicator is updated once, the listeners are registered
DOMContentLoaded ==
  /\ ~ready
  /\ ready' = TRUE
  /\ LET st1 == IF "header" \in present
                  THEN ThrottledCall("onHeaderScroll", WindowCall(<< >>), ScrollSt)
                  ELSE ScrollSt
         st2 == IF "scrollIndicator" \in present
                  THEN ApplyFn("onIndicatorScroll", st1)
                  ELSE st1
     IN  SetScrollSt(st2)
  /\ UNCHANGED << scrollY, scrollHeight, clientHeight, scrollPending, nEvents >>
  /\ triggers' = SectionTriggers(sections)
  /\ UNCHANGED << present, uncaught, sections, formVars, modalVars >>

\* the page as the browser has parsed it, before DOMContentLoaded
InitWith(pages, heights, headerClasses, sectionLists) ==
  /\ ready = FALSE
  /\ present \in pages
  /\ uncaught = FALSE
  /\ scrollY = 0
  /\ scrollHeight \in heights
  /\ clientHeight \in ClientHeights
  /\ scrollPending = FALSE
  /\ nEvents = 0
  /\ ticking = [w \in Wrappers |-> FALSE]
  /\ rafQueue = << >>
  /\ calls = [w \in Wrappers |-> << >>]
  /\ fnRuns = [w \in Wrappers |-> 0]
  /\ fnLast = [w \in Wrappers |-> NoCall]
  /\ headerScrolled \in headerClasses
  /\ indicatorScale = NoScale
  /\ formValue = FieldDefault
  /\ submitDisabled = FALSE
  /\ submitLabel = IdleLabel
  /\ subs = << >>
  /\ toasts = << >>
  /\ timers = { }
  /\ exiting = { }
  /\ nToasts = 0
  /\ modalDisplay = ""
  /\ bodyOverflow = ""
  /\ modalTitle = ""
  /\ modalDescription = ""
  /\ modalStack = [labels |-> << >>, text |-> ""]
  /\ lastCard = << >>
  /\ lastEvent = NoEvent
  /\ sections \in sectionLists
  /\ triggers = { }

\* the pages that lack any of the given elements and hold all the others
PagesWithout(optional) == { Elements \ missing : missing \in SUBSET optional }

Init == InitWith(SUBSET Elements, ScrollHeights, BOOLEAN, SectionLists)
\* the pages and layouts that matter to the scroll handlers, to the form and
\* to the modal; what the others read is fixed
InitScroll ==
  InitWith(PagesWithout({ "header", "scrollIndicator" }), ScrollHeights, BOOLEAN,
           { PageSections })
InitForm ==
  InitWith(PagesWithout({ "contactForm", "submitButton" }), { 220 }, { FALSE },
           { PageSections })
InitModal ==
  InitWith(PagesWithout({ "modal", "modalTitle", "modalDescription",
                          "modalStack", "closeModal" }), { 220 }, { FALSE },
           { PageSections })
InitCards == InitWith(PagesWithout({ "modalStack" }), { 220 }, { FALSE },
           { PageSections })
\* every list of sections, on a page that holds every element
InitSections == InitWith({ Elements }, { 220 }, { FALSE }, SectionLists)

NextScroll ==
  \/ DOMContentLoaded
  \/ \E y \in ScrollYs : ScrollTo(y)
  \/ \E y \in OverscrollYs : Overscroll(y)
  \/ ScrollEvent
  \/ AnimationFrame

NextForm ==
  \/ DOMContentLoaded
  \/ \E v \in FieldValues : TypeMessage(v)
  \/ SubmitEvent
  \/ \E i \in 1..MaxSubmits, o \in Outcomes : FetchSettles(i, o)
  \/ \E id \in 1..MaxSubmits : ToastTimerFires(id)
  \/ \E id \in 1..MaxSubmits : ExitAnimationCompletes(id)

ModalEvents(cards) ==
  \/ \E card \in cards : CardClick(card)
  \/ CloseClick
  \/ \E target \in ClickTargets : WindowClick(target)
  \/ \E key \in Keys : KeyDown(key)

NextModal == DOMContentLoaded \/ ModalEvents(SampleCards)
NextCards == DOMContentLoaded \/ ModalEvents(Cards)

NextSections == DOMContentLoaded \/ AnimationFrame

Next == NextScroll \/ NextForm \/ NextCards

\* the whole page
Spec == Init /\ [][Next]_vars
\* the page with only the scroll handlers, only the form, only the modal
\* exercised: the three share no state but the page's elements
SpecScroll == InitScroll /\ [][NextScroll]_vars
SpecForm == InitForm /\ [][NextForm]_vars
SpecModal == InitModal /\ [][NextModal]_vars
\* the modal opened on every card, data-stack values included
SpecCards == InitCards /\ [][NextCards]_vars
\* the page initialized on every list of sections
SpecSections == InitSections /\ [][NextSections]_vars

\* the browser runs the animation-frame callbacks that were requested
SpecScrollFair == InitScroll /\ [][NextScroll]_vars /\ WF_vars(AnimationFrame)

\* the browser fires every pending timer and the animation engine completes
\* every running tween
ToastFairness ==
  \A id \in 1..MaxSubmits :
    WF_vars(ToastTimerFires(id)) /\ WF_vars(ExitAnimationCompletes(id))
SpecFormFair == InitForm /\ [][NextForm]_vars /\ ToastFairness

(***************************************************************************)
(* The claims.                                                             *)
(***************************************************************************)
Header == "onHeaderScroll"

\* the frame callbacks of wrapper w that are pending
Pending(w) == { i \in DOMAIN rafQueue : rafQueue[i].w = w }

\* C1 (as stated): when a wrapper has been invoked N >= 1 times since its
\* last frame callback, the next frame executes fn exactly once, with the
\* this and the arguments of the LAST of those invocations.
C1_RunsWithLastCall ==
  [][\A w \in Wrappers :
       (calls[w] # << >> /\ calls'[w] = << >>)
         => /\ fnRuns'[w] = fnRuns[w] + 1
            /\ fnLast'[w] = Last(calls[w])]_vars

\* C2: fn is never executed inside an invocation of the wrapper, only in a
\* later frame callback, and at most one frame callback per wrapper is
\* pending in every reachable state.
C2_DeferredOnePending ==
  /\ [](\A w \in Wrappers : Cardinality(Pending(w)) <= 1)
  /\ [][\A w \in Wrappers :
          Len(calls'[w]) > Len(calls[w])
            => /\ fnRuns'[w] = fnRuns[w]
               /\ w = Header => headerScrolled' = headerScrolled
               /\ w # Header => indicatorScale' = indicatorScale]_vars

\* the wrapper was invoked twice while one callback of it is pending, and
\* its fn has not run
C2_Witness ==
  /\ Len(calls[Header]) >= 2
  /\ ticking[Header]
  /\ Cardinality(Pending(Header)) = 1
  /\ fnRuns[Header] = 0

\* submission i, awaiting its response, ends in this step with outcome o
Settles(i, o) ==
  /\ i \in DOMAIN subs
  /\ subs[i].pc = "awaiting"
  /\ subs'[i].pc = "done"
  /\ subs'[i].outcome = o

\* this step appends exactly one toast, of the given type
RaisesOne(type) ==
  /\ Len(toasts') = Len(toasts) + 1
  /\ SubSeq(toasts', 1, Len(toasts)) = toasts
  /\ Last(toasts').type = type

\* C3: whenever the submit handler finishes, on each of its three exit paths
\* (response ok, response not ok, fetch rejected), the submit control is
\* enabled and its label is "Send Message".
C3_CleanupOnEveryPath ==
  [][\A i \in DOMAIN subs : \A o \in Outcomes :
       Settles(i, o) => ~submitDisabled' /\ submitLabel' = "Send Message"]_vars

\* a submission has ended by a transport error, another by a rejection, and
\* the control is enabled with its idle label
C3_Witness ==
  /\ \E i \in DOMAIN subs : subs[i].pc = "done" /\ subs[i].outcome = "neterror"
  /\ \E i \in DOMAIN subs : subs[i].pc = "done" /\ subs[i].outcome = "rejected"
  /\ ~submitDisabled
  /\ submitLabel = "Send Message"

\* C4: a submission disables the submit control before its fetch; when the
\* fetch resolves with a successful status the control is enabled again,
\* exactly one toast is raised and it is a success toast (so no error
\* toast), and the form's fields are cleared.
C4_SuccessPath ==
  [][/\ Len(subs') > Len(subs)
          => Last(subs').pc = "awaiting" /\ submitDisabled'
     /\ \A i \in DOMAIN subs :
          Settles(i, "ok")
            => /\ ~submitDisabled'
               /\ RaisesOne("success")
               /\ Last(toasts').message = SuccessMsg
               /\ formValue' = ""]_vars

\* a submission of a filled form has succeeded: its success toast is shown
\* and the form is empty
C4_Witness ==
  /\ \E i \in DOMAIN subs :
       subs[i].pc = "done" /\ subs[i].outcome = "ok" /\ subs[i].data # ""
  /\ \E k \in DOMAIN toasts : toasts[k].type = "success"
  /\ \A k \in DOMAIN toasts : toasts[k].type # "error"
  /\ formValue = ""
  /\ ~submitDisabled

\* C5: when the fetch resolves with a status that is not successful, exactly
\* one toast is raised and it is an error toast (so no success toast), the
\* form's fields keep their values, and the submit control is enabled.
C5_RejectedPath ==
  [][\A i \in DOMAIN subs :
       Settles(i, "rejected")
         => /\ RaisesOne("error")
            /\ formValue' = formValue
            /\ ~submitDisabled']_vars

\* a submission of a filled form was rejected: an error toast is shown, no
\* success toast, and the form still holds what was typed
C5_Witness ==
  /\ Len(subs) = 1
  /\ subs[1].pc = "done" /\ subs[1].outcome = "rejected"
  /\ \E k \in DOMAIN toasts : toasts[k].type = "error"
  /\ \A k \in DOMAIN toasts : toasts[k].type # "success"
  /\ formValue # ""
  /\ ~submitDisabled

\* C6: when the fetch itself fails, exactly one toast is raised, it is an
\* error toast whose message is the network-error message, which is not the
\* message of a server-rejected submission; the form's fields keep their
\* values and the submit control is enabled.
C6_NetworkErrorPath ==
  [][\A i \in DOMAIN subs :
       Settles(i, "neterror")
         => /\ RaisesOne("error")
            /\ Last(toasts').message = "Network error. Please try again later."
            /\ Last(toasts').message # ServerRejectedMsg
            /\ formValue' = formValue
            /\ ~submitDisabled']_vars

\* a submission of a filled form failed in transport: the network-error
\* toast is shown and the form still holds what was typed
C6_Witness ==
  /\ Len(subs) = 1
  /\ subs[1].pc = "done" /\ subs[1].outcome = "neterror"
  /\ Len(toasts) = 1
  /\ toasts[1].type = "error" /\ toasts[1].message = NetworkErrorMsg
  /\ formValue # ""
  /\ ~submitDisabled

\* the event is one of the three close routes: the close control, a click on
\* the modal itself, the Escape key
CloseRoute(e) ==
  \/ e.type = "click" /\ e.detail \in { "closeModal", "modal" }
  \/ e.type = "keydown" /\ e.detail \in { "Escape", "Esc" }

\* C7: in every reachable state page scrolling is suppressed (body overflow
\* "hidden") if and only if the modal is visible (display "block"); and
\* when the last event was one of the three close routes and found the
\* modal open, the modal is hidden and page scrolling is restored.
C7_ScrollLockIffOpen ==
  /\ bodyOverflow = "hidden" <=> modalDisplay = "block"
  /\ (lastEvent.open /\ CloseRoute(lastEvent))
       => modalDisplay = "none" /\ bodyOverflow = ""

\* the modal was open, the overlay was clicked, and it is closed
C7_Witness ==
  /\ lastCard # << >>
  /\ lastEvent = [type |-> "click", detail |-> "modal", open |-> TRUE]
  /\ modalDisplay = "none"
  /\ bodyOverflow = ""

\* C8: after Escape (or Esc) pressed while the modal was open, the modal is
\* hidden and page scrolling is restored; a step that handles Escape while
\* the modal is not open, or any other key in any state, changes neither
\* the modal's display nor the body's overflow.
C8_EscapeOnlyWhenOpen ==
  /\ []( ( lastEvent.type = "keydown" /\ lastEvent.detail \in { "Escape", "Esc" }
           /\ lastEvent.open )
         => modalDisplay = "none" /\ bodyOverflow = "" )
  /\ [][( lastEvent'.type = "keydown"
          /\ ~(lastEvent'.detail \in { "Escape", "Esc" } /\ modalDisplay = "block") )
        => modalDisplay' = modalDisplay /\ bodyOverflow' = bodyOverflow]_vars

\* Escape was pressed while the modal was open, and the modal is closed
C8_Witness ==
  /\ lastCard # << >>
  /\ lastEvent = [type |-> "keydown", detail |-> "Escape", open |-> TRUE]
  /\ modalDisplay = "none"
  /\ bodyOverflow = ""

\* the positions of the commas of s, and its j-th comma-separated item: what
\* lies between the (j-1)-th and the j-th comma
CommaAt(s) == { i \in 1..Len(s) : s[i] = "," }
NthComma(s, n) ==
  CHOOSE p \in CommaAt(s) : Cardinality({ q \in CommaAt(s) : q < p }) = n - 1
Item(s, j) ==
  LET from == IF j = 1 THEN 1 ELSE NthComma(s, j - 1) + 1
      to == IF j = Cardinality(CommaAt(s)) + 1 THEN Len(s)
            ELSE NthComma(s, j) - 1
  IN  SubSeq(s, from, to)
\* x without its leading and trailing blanks
Stripped(x) ==
  LET inked == { i \in 1..Len(x) : x[i] # " " }
  IN  IF inked = { } THEN << >>
      ELSE SubSeq(x, CHOOSE a \in inked : \A b \in inked : a <= b,
                     CHOOSE a \in inked : \A b \in inked : a >= b)

\* the modal's three content elements exist
ContentElements == { "modalTitle", "modalDescription", "modalStack" }

\* C9: once a card has been clicked on a page that holds the modal's content
\* elements: a data-stack of k comma-separated items shows exactly k labels,
\* the items without their leading and trailing blanks, in order, and no
\* placeholder; a card with no data-stack, or an empty one, shows the
\* placeholder and no label; an absent title or description shows
\* "Project Details" or "No description available.".
C9_StackLabels ==
  (lastCard # << >> /\ ContentElements \subseteq present)
    =>
    LET c == lastCard[1]
    IN   /\ IF c.stack.has /\ c.stack.val # << >>
              THEN /\ Len(modalStack.labels) = Cardinality(CommaAt(c.stack.val)) + 1
                   /\ \A j \in 1..Len(modalStack.labels) :
                        modalStack.labels[j] = Stripped(Item(c.stack.val, j))
                   /\ modalStack.text = ""
              ELSE /\ modalStack.labels = << >>
                   /\ modalStack.text = "Tech stack not specified."
         /\ ~c.title.has => modalTitle = "Project Details"
         /\ (c.title.has /\ c.title.val # "") => modalTitle = c.title.val
         /\ ~c.description.has => modalDescription = "No description available."
         /\ (c.description.has /\ c.description.val # "")
              => modalDescription = c.description.val

\* the modal is open on a card whose data-stack is "Go,React": two labels,
\* "Go" then "React"
C9_Witness ==
  /\ lastCard # << >>
  /\ lastCard[1].stack = Attr(<< "Go", ",", "React" >>)
  /\ modalStack = [labels |-> << << "Go" >>, << "React" >> >>, text |-> ""]
  /\ modalDisplay = "block"

\* C10: whenever the throttled header handler executes, the header carries
\* the class "scrolled" afterwards if and only if the scroll offset at that
\* moment is greater than 50: at 50 it is absent, at 51 present, whatever
\* the class was before.
C10_ScrolledIffOver50 ==
  [][fnRuns'[Header] # fnRuns[Header]
       => /\ headerScrolled' <=> scrollY' > 50
          /\ scrollY' = 50 => ~headerScrolled'
          /\ scrollY' = 51 => headerScrolled']_vars

\* the header handler has just run at offset 50, the boundary: the class
\* is absent
C10_Witness ==
  /\ fnRuns[Header] >= 1
  /\ calls[Header] = << >>
  /\ ~scrollPending
  /\ scrollY = 50
  /\ ~headerScrolled

Indicator == "onIndicatorScroll"

\* this step runs updateIndicator: through its wrapper, or at initialization
UpdatesIndicator ==
  \/ fnRuns'[Indicator] # fnRuns[Indicator]
  \/ ~ready /\ ready' /\ "scrollIndicator" \in present

\* C11: whenever updateIndicator runs, with scroll offset s and scrollable
\* height d = scrollHeight - clientHeight, the scale it sets is a number in
\* [0, 1]; it is 0 when d is not positive (nothing is divided by zero), and
\* otherwise it is s / d clamped to [0, 1].
C11_IndicatorClamp ==
  [][UpdatesIndicator
       => LET x == indicatorScale'
              s == scrollY'
              d == scrollHeight' - clientHeight'
          IN  /\ x.d > 0
              /\ 0 <= x.n /\ x.n <= x.d
              /\ d <= 0 => x.n = 0
              /\ (d > 0 /\ s <= 0) => x.n = 0
              /\ (d > 0 /\ s >= d) => x.n = x.d
              /\ (d > 0 /\ 0 < s /\ s < d) => x.n * d = s * x.d]_vars

\* the throttled updateIndicator has run at offset 50 of a document that
\* scrolls by 120: the scale is 50/120
C11_Witness ==
  /\ fnRuns[Indicator] >= 1
  /\ calls[Indicator] = << >>
  /\ scrollY = 50
  /\ scrollHeight - clientHeight = 120
  /\ indicatorScale.d > 0
  /\ indicatorScale.n * 120 = 50 * indicatorScale.d

\* toast id is an element of the document
InDocument(id) == \E k \in DOMAIN toasts : toasts[k].id = id
ToastIds == 1..MaxSubmits

\* C12: a toast stays in the document while its dwell timer is pending and
\* while its exit tween runs; a step removes a toast only if its timer had
\* fired and its exit tween was running and completes in that step; and,
\* timers and tweens being fair, every toast in the document is eventually
\* removed.
C12_ToastLifecycle ==
  /\ [](\A id \in ToastIds :
          /\ id \in timers \cup exiting => InDocument(id)
          /\ ~(id \in timers /\ id \in exiting))
  /\ [][\A id \in ToastIds :
          /\ (InDocument(id) /\ ~InDocument(id)')
               => id \notin timers /\ id \in exiting /\ id \notin exiting'
          /\ (id \in exiting' /\ id \notin exiting) => id \in timers]_vars
  /\ \A id \in ToastIds : InDocument(id) ~> ~InDocument(id)

\* a toast was created and has gone through its whole life
C12_Witness ==
  /\ nToasts >= 1
  /\ ~InDocument(1)
  /\ 1 \notin timers \cup exiting

\* C16: with several toasts in the document, the firing of one toast's timer
\* removes nothing and starts only that toast's exit tween; the completion of
\* one toast's exit tween removes that toast and no other, leaving the
\* others' timers and tweens alone; a removed toast never comes back.
C16_IndependentToasts ==
  [][\A id \in ToastIds :
       /\ (id \in timers /\ id \notin timers')
            => /\ toasts' = toasts
               /\ timers' = timers \ { id }
               /\ exiting' = exiting \cup { id }
       /\ (InDocument(id) /\ ~InDocument(id)')
            => /\ toasts' = SelectSeq(toasts, LAMBDA t : t.id # id)
               /\ timers' = timers
               /\ exiting' = exiting \ { id }
       /\ (id <= nToasts /\ ~InDocument(id)) => ~InDocument(id)']_vars

\* two toasts were created; the second has been removed while the first is
\* still waiting for its timer
C16_Witness ==
  /\ nToasts = 2
  /\ InDocument(1) /\ 1 \in timers
  /\ ~InDocument(2) /\ 2 \notin timers \cup exiting

\* C13 (as stated): whatever optional elements the page lacks, no
\* initialization step and no later event handler raises an error.
C13_NoHandlerThrows == ~uncaught

\* x is s / d clamped to [0, 1], and 0 when d is not positive
IsClamped(x, s, d) ==
  /\ x.d > 0
  /\ IF d <= 0 \/ s <= 0 THEN x.n = 0
     ELSE IF s >= d THEN x.n = x.d
     ELSE x.n * d = s * x.d
\* the header's class and the indicator's scale agree with the scroll
\* position of this state
HeaderCurrent == headerScrolled <=> scrollY > 50
IndicatorCurrent ==
  IsClamped(indicatorScale, scrollY, scrollHeight - clientHeight)

C15_CurrentAfterOneFrame ==
  (ready /\ ~scrollPending /\ rafQueue = << >>)
    => /\ "header" \in present => HeaderCurrent
       /\ "scrollIndicator" \in present => IndicatorCurrent

\* two scroll events came before the first frame; the frame has run each
\* handler once and both show offset 51
C15_Witness ==
  /\ ready /\ ~scrollPending /\ rafQueue = << >>
  /\ present = Elements
  /\ nEvents = 2
  /\ fnRuns[Header] = 1 /\ fnRuns[Indicator] = 1
  /\ scrollY = 51
  /\ headerScrolled
  /\ IndicatorCurrent

\* C19: a wrapper's flag is set exactly while a frame callback of it is
\* pending; an invocation that finds the flag clear requests a callback;
\* the invocations on record are discharged only by an execution of fn,
\* which leaves the flag clear; and, animation frames being fair, every
\* invocation on record is eventually discharged.
C19_NoCallLost ==
  /\ [](\A w \in Wrappers : ticking[w] <=> Pending(w) # { })
  /\ [][\A w \in Wrappers :
          (Len(calls'[w]) > Len(calls[w]) /\ ~ticking[w])
            => Pending(w)' # { }]_vars
  /\ [][\A w \in Wrappers :
          (calls[w] # << >> /\ calls'[w] = << >>)
            => fnRuns'[w] = fnRuns[w] + 1 /\ ~ticking'[w]]_vars
  /\ \A w \in Wrappers :
       (calls[w] # << >>) ~> (calls[w] = << >> /\ ~ticking[w])

\* the header handler has run twice: an invocation after the first run
\* requested a new callback, which has run too
C19_Witness ==
  /\ fnRuns[Header] = 2
  /\ ~ticking[Header]
  /\ calls[Header] = << >>

\* some submission's network call is in flight
InFlight == \E i \in DOMAIN subs : subs[i].pc = "awaiting"

\* C18 (as stated): in every reachable state the submit control is disabled
\* and labelled "Sending..." as long as a submission's network call is in
\* flight, also when a second submit event arrives while an earlier
\* submission awaits its response; it is enabled only with none in flight.
C18_BusyWhileInFlight ==
  InFlight => submitDisabled /\ submitLabel = BusyLabel

\* what one card alone puts into the modal
ShownText(attr, fallback) ==
  IF attr.has /\ attr.val # "" THEN attr.val ELSE fallback
ShownStack(attr) ==
  IF attr.has /\ attr.val # << >>
    THEN [labels |-> [j \in 1..(Cardinality(CommaAt(attr.val)) + 1)
                        |-> Stripped(Item(attr.val, j))],
          text |-> ""]
    ELSE [labels |-> << >>, text |-> "Tech stack not specified."]

\* C17: after any sequence of card clicks, with or without closing the modal
\* in between, the modal's title, description and technology region are
\* exactly those of the most recently clicked card alone: no label and no
\* placeholder of an earlier open remains.
C17_OnlyLastCard ==
  (lastCard # << >> /\ ContentElements \subseteq present)
    => /\ modalTitle = ShownText(lastCard[1].title, "Project Details")
       /\ modalDescription =
            ShownText(lastCard[1].description, "No description available.")
       /\ modalStack = ShownStack(lastCard[1].stack)

\* a card with the one technology "React" was clicked while the modal was
\* open on an earlier card: the region holds the one label, nothing else
C17_Witness ==
  /\ lastEvent = [type |-> "click", detail |-> "card", open |-> TRUE]
  /\ lastCard = << [title |-> Attr("Portfolio"), description |-> NoText,
                    stack |-> Attr(<< "React" >>)] >>
  /\ modalStack = [labels |-> << << "React" >> >>, text |-> ""]
  /\ modalDescription = "No description available."

\* C20 (as stated): for every list of sections the fade-toggle trigger is
\* registered for every section except the first and the last one, and for
\* no other; with fewer than three sections none is registered.
C20_AllButFirstAndLast ==
  ready => /\ triggers = { i \in 1..Len(sections) : i # 1 /\ i # Len(sections) }
           /\ Len(sections) < 3 => triggers = { }

\* the first section is the page's one section with id "hero"
HeroFirstOnly ==
  /\ sections # << >>
  /\ \A i \in 1..Len(sections) : sections[i] = "hero" <=> i = 1

\* C20 (amended): the trigger is registered for every section that neither
\* has the id "hero" nor is the last one, and for no other; where the first
\* section is the only one with id "hero" that is every section but the
\* first and the last, and none with fewer than three sections.
C20_AllButHeroAndLast ==
  ready =>
    /\ \A i \in 1..Len(sections) :
         i \in triggers <=> (sections[i] # "hero" /\ i < Len(sections))
    /\ triggers \subseteq 1..Len(sections)
    /\ HeroFirstOnly =>
         /\ triggers = 2..(Len(sections) - 1)
         /\ Len(sections) < 3 => triggers = { }

\* a page whose hero is its second section: the first one has a trigger
C20_Witness ==
  /\ ready
  /\ sections = << "about", "hero", "contact" >>
  /\ triggers = { 1 }

=============================================================================
